---- MODULE Spec2Model ----
(***************************************************************************)
(* seek_bufread::BufReader<R> (src/src/lib.rs) over a seekable byte        *)
(* Source R.  The reader's fields keep their names: buf, buf_pos, cap      *)
(* (the number of valid bytes in buf, NOT the buffer's capacity, which is  *)
(* Len(buf)) and absolute_pos.  inner_pos is the physical position of the  *)
(* wrapped Source `inner`.                                                 *)
(*                                                                         *)
(* usize / u64 values are 64 bits wide, which TLC's integers cannot hold.  *)
(* A value v is therefore kept as its two's-complement representative:     *)
(* r >= 0 stands for v = r, and r < 0 stands for v = 2^64 + r, the value a *)
(* wrapping subtraction leaves behind.  With the small magnitudes of the   *)
(* model, wrapping + and - are + and - on representatives, and unsigned    *)
(* comparison is ULt below.  A debug build panics where a release build    *)
(* wraps; `build` is the build the program was compiled as.                *)
(***************************************************************************)
EXTENDS Integers, Sequences, FiniteSets, TLC

VARIABLES
    inner_pos,      \* physical position of the Source (inner)
    buf,            \* the boxed buffer, Len(buf) is the constructed capacity
    buf_pos,        \* position within buf
    cap,            \* number of valid bytes in buf (the field named cap)
    absolute_pos,   \* absolute (logical) position
    build,          \* "debug" (overflow checks on) or "release" (wrapping)
    pc,             \* "idle", "read" (inside read's loop), "panicked", "unwrapped"
    n_exp,          \* read: buf.len() of the caller's destination
    n_total,        \* read: bytes delivered so far
    dest,           \* read: the caller's destination buffer
    lastOp,         \* the public call made last
    lastArg,        \* its argument
    lastRes,        \* "ok", "err", "panic", or "pending" while read loops
    lastVal,        \* the value inside Ok(..)
    pre,            \* buf_pos, cap, absolute_pos and clean when the call began
    srcSeeks,       \* Source seek calls issued by the last call
    srcReads,       \* Source read calls issued by the last call
    srcSeekReq,     \* the SeekFrom handed to the Source by the last call
    srcReadLen,     \* length of the slice the last call's latest Source read got
    clean,          \* every call so far returned Ok
    faults,         \* I/O errors the Source has raised so far
    ref_pos         \* position of a plain cursor over the same bytes making
                    \* the same calls (see Follow)

vars == <<inner_pos, buf, buf_pos, cap, absolute_pos, build, pc, n_exp, n_total,
          dest, lastOp, lastArg, lastRes, lastVal, pre, srcSeeks, srcReads,
          srcSeekReq, srcReadLen, clean, faults, ref_pos>>

readerVars == <<buf, buf_pos, cap, absolute_pos>>
readVars == <<n_exp, n_total, dest>>

(***************************************************************************)
(* Bounds of the model.                                                    *)
(***************************************************************************)
SrcLen == 2
MaxCap == 2
MaxPos == 3
MaxOff == 2
MaxDest == 2
MaxFaults == 1

Min(a, b) == IF a < b THEN a ELSE b
Max(a, b) == IF a > b THEN a ELSE b

(***************************************************************************)
(* Unsigned 64-bit arithmetic on representatives.                          *)
(***************************************************************************)
ULt(a, b) == IF (a >= 0) = (b >= 0) THEN a < b ELSE a >= 0
UGtZero(a) == a # 0
\* a - b overflows (panics in a debug build, wraps in a release build)
SubOverflows(a, b) == ULt(a, b)

(***************************************************************************)
(* The Source: a seekable stream of SrcLen bytes, the byte at offset i     *)
(* being SrcByte(i) (all distinct and none 0, so a byte names its offset   *)
(* and differs from the zeroed buffers).  It behaves as std::io::Cursor    *)
(* does, except that a read may be partial and any call may fail.          *)
(***************************************************************************)
SrcByte(i) == i + 1

NoReq == <<"None", 0>>

\* whether the Source may still raise an I/O error (a one-element set if so)
IoError == IF faults < MaxFaults THEN {1} ELSE {}

\* inner.seek(req): the positions the Source may report, or an error
SeekBase(kind, pos) ==
    CASE kind = "Start" -> 0
      [] kind = "End" -> SrcLen
      [] OTHER -> pos

SourceSeek(req) ==
    LET target == SeekBase(req[1], inner_pos) + req[2]
    IN  IF req[1] # "Start" /\ target < 0
            THEN {[res |-> "err", io |-> 0, pos |-> inner_pos]}
            ELSE {[res |-> "ok", io |-> 0, pos |-> target]} \cup
                 {[res |-> "err", io |-> 1, pos |-> inner_pos] : x \in IoError}

\* inner.read(&mut b) with Len(b) = len: the byte counts the Source may return
ReadCounts(len) ==
    IF len = 0 \/ inner_pos < 0 \/ inner_pos >= SrcLen
        THEN {0}
        ELSE 1..Min(len, SrcLen - inner_pos)

SourceRead(len) ==
    {[res |-> "ok", io |-> 0, n |-> k, len |-> len] : k \in ReadCounts(len)} \cup
    {[res |-> "err", io |-> 1, n |-> 0, len |-> len] : x \in IoError}

(***************************************************************************)
(* BufReader                                                               *)
(***************************************************************************)
Zeros(n) == [i \in 1..n |-> 0]

position == absolute_pos

capacity == cap

available == IF ULt(cap, buf_pos) THEN 0 ELSE cap - buf_pos

\* An outcome of a call: its result and the fields it leaves behind.
Outcome(res, val, b, bp, c, ap, ip, seeks, reads, req, io) ==
    [res |-> res, val |-> val, buf |-> b, buf_pos |-> bp, cap |-> c,
     absolute_pos |-> ap, inner_pos |-> ip, seeks |-> seeks, reads |-> reads,
     req |-> req, io |-> io, rlen |-> 0]

Panic == Outcome("panic", 0, buf, buf_pos, cap, absolute_pos, inner_pos, 0, 0, NoReq, 0)

\* the value buf_pos has when the Source's seek returns, in sync_and_flush
FlushedBufPos == cap

\* a flush that does not take the position the Source reports
sync_and_flush_NoPos(req) ==
    {Outcome(s.res,
             IF s.res = "ok" THEN s.pos ELSE 0,
             buf, FlushedBufPos, cap,
             absolute_pos,
             s.pos, 1, 0, req, s.io) : s \in SourceSeek(req)}

sync_and_flush(req) ==
    {Outcome(s.res,
             IF s.res = "ok" THEN s.pos ELSE 0,
             buf, FlushedBufPos, cap,
             IF s.res = "ok" THEN s.pos ELSE absolute_pos,
             s.pos, 1, 0, req, s.io) : s \in SourceSeek(req)}

consume(amt) ==
    Outcome("ok", absolute_pos + amt, buf, buf_pos + amt, cap,
            absolute_pos + amt, inner_pos, 0, 0, NoReq, 0)

\* the test `self.buf_pos - n > 0` of seek_backward, once the subtraction is done
BackwardInBuffer(n) == UGtZero(buf_pos - n)

seek_backward(n) ==
    IF build = "debug" /\ SubOverflows(buf_pos, n)
        THEN {Panic}
    ELSE IF BackwardInBuffer(n)
        THEN IF build = "debug" /\ SubOverflows(absolute_pos, n)
                THEN {Panic}
                ELSE {Outcome("ok", absolute_pos - n, buf, buf_pos - n, cap,
                              absolute_pos - n, inner_pos, 0, 0, NoReq, 0)}
        ELSE sync_and_flush(<<"Current", -n>>)

\* a forward seek that leaves the buffer one byte too early
ForwardInBuffer_Strict(n) == ULt(n, available)

\* the test `self.available().checked_sub(n).is_some()` of seek_forward
ForwardInBuffer(n) == ~ULt(available, n)

seek_forward(n) ==
    IF ForwardInBuffer(n)
        THEN {consume(n)}
        ELSE sync_and_flush(<<"Current", n>>)

seek(req) ==
    IF req[1] = "Current"
        THEN IF req[2] > 0
                THEN seek_forward(req[2])
                ELSE seek_backward(-req[2])
        ELSE sync_and_flush(req)

\* a fill that stores the bytes one offset too far into the Source
Filled_Shifted(k) ==
    [i \in 1..Len(buf) |-> IF i <= k THEN SrcByte(inner_pos + i) ELSE buf[i]]

\* buf after the Source wrote k bytes read at inner_pos into its front
Filled(k) ==
    [i \in 1..Len(buf) |-> IF i <= k THEN SrcByte(inner_pos + i - 1) ELSE buf[i]]

\* the outcomes of `self.cap = try!(self.inner.read(&mut self.buf)); self.buf_pos = 0;`
Fetch ==
    {[(IF s.res = "err"
        THEN Outcome("err", 0, buf, buf_pos, cap, absolute_pos, inner_pos,
                     0, 1, NoReq, s.io)
        ELSE Outcome("ok", s.n, Filled(s.n), 0, s.n, absolute_pos,
                     inner_pos + s.n, 0, 1, NoReq, s.io)) EXCEPT !.rlen = s.len]
      : s \in SourceRead(Len(buf))}

\* a fill that fetches from the Source on every call
fill_buf_Eager == Fetch

fill_buf ==
    IF cap = buf_pos
        THEN Fetch
        ELSE \* &self.buf[self.buf_pos..self.cap] panics when buf_pos > cap
             {IF ULt(cap, buf_pos)
                THEN Panic
                ELSE Outcome("ok", cap - buf_pos, buf, buf_pos, cap, absolute_pos,
                             inner_pos, 0, 0, NoReq, 0)}

into_inner ==
    {Outcome(s.res, s.pos, buf, buf_pos, cap, absolute_pos, s.pos, 1, 0,
             <<"Start", absolute_pos>>, s.io)
        : s \in SourceSeek(<<"Start", absolute_pos>>)}

(***************************************************************************)
(* The reference: a plain cursor over the same bytes.                      *)
(***************************************************************************)
RefSeek(p, req) ==
    LET target == SeekBase(req[1], p) + req[2]
    IN  IF target < 0 THEN p ELSE target

RefRead(p, len) == p + Min(len, Max(0, SrcLen - p))

\* The cursor is followed for as long as every call of the reader has
\* succeeded and the two positions agreed before the call (before being the
\* reader's); r is where the call takes the cursor.  Once they have parted, or a call has failed, there
\* is no reference any more, which RefLost (no position of the model) marks.
RefLost == MaxPos + 1

Follow(before, r) ==
    ref_pos' = IF clean' /\ ref_pos = before THEN r ELSE RefLost

(***************************************************************************)
(* Calls                                                                   *)
(***************************************************************************)
Snapshot ==
    [buf_pos |-> buf_pos, cap |-> cap, absolute_pos |-> absolute_pos,
     clean |-> clean]

InBounds(o) ==
    /\ o.inner_pos \in -MaxOff..MaxPos
    /\ o.absolute_pos \in -MaxOff..MaxPos
    /\ o.buf_pos \in -MaxOff..MaxPos

\* The fields an outcome leaves behind.  A reader lost to a panic, or consumed
\* by into_inner (which takes self by value), has no fields any more: they
\* read as zero from then on, and pre still tells what they were.
Commit(o, gone) ==
    /\ buf' = IF gone THEN <<>> ELSE o.buf
    /\ buf_pos' = IF gone THEN 0 ELSE o.buf_pos
    /\ cap' = IF gone THEN 0 ELSE o.cap
    /\ absolute_pos' = IF gone THEN 0 ELSE o.absolute_pos
    /\ inner_pos' = IF o.res = "panic" THEN 0 ELSE o.inner_pos

\* the SeekFrom values a caller passes: Start(0..MaxPos), End(-MaxOff..0)
\* and Current(-MaxOff..MaxOff)
Requests ==
    ({"Start"} \X (0..MaxPos)) \cup ({"End"} \X (-MaxOff..0)) \cup
    ({"Current"} \X (-MaxOff..MaxOff))

Init ==
    /\ inner_pos = 0
    /\ buf \in {Zeros(c) : c \in 0..MaxCap}
    /\ buf_pos = 0
    /\ cap = 0
    /\ absolute_pos = 0
    /\ build \in {"debug", "release"}
    /\ pc = "idle"
    /\ n_exp = 0
    /\ n_total = 0
    /\ dest = <<>>
    /\ lastOp = "with_capacity"
    /\ lastArg = <<"None", Len(buf)>>
    /\ lastRes = "ok"
    /\ lastVal = 0
    /\ srcSeeks = 0
    /\ srcReads = 0
    /\ srcSeekReq = NoReq
    /\ srcReadLen = 0
    /\ clean = TRUE
    /\ faults = 0
    /\ ref_pos = 0
    /\ pre = Snapshot

\* read's locals and the caller's destination do not outlive the next call
NoRead ==
    /\ n_exp' = 0
    /\ n_total' = 0
    /\ dest' = <<>>

Finish(o) ==
    /\ Commit(o, o.res = "panic")
    /\ pc' = IF o.res = "panic" THEN "panicked" ELSE "idle"
    /\ lastRes' = o.res
    /\ lastVal' = o.val
    /\ clean' = (clean /\ o.res = "ok")
    /\ faults' = faults + o.io

Seek ==
    /\ pc = "idle"
    /\ \E req \in Requests : \E o \in seek(req) :
        /\ InBounds(o)
        /\ Finish(o)
        /\ lastOp' = "seek"
        /\ lastArg' = req
        /\ pre' = Snapshot
        /\ srcSeeks' = o.seeks
        /\ srcReads' = o.reads
        /\ srcSeekReq' = o.req
        /\ srcReadLen' = o.rlen
        /\ Follow(absolute_pos, RefSeek(ref_pos, req))
    /\ NoRead
    /\ UNCHANGED build

FillBuf ==
    /\ pc = "idle"
    /\ \E o \in fill_buf :
        /\ Finish(o)
        /\ lastOp' = "fill_buf"
        /\ lastArg' = NoReq
        /\ pre' = Snapshot
        /\ srcSeeks' = o.seeks
        /\ srcReads' = o.reads
        /\ srcSeekReq' = o.req
        /\ srcReadLen' = o.rlen
        /\ Follow(absolute_pos, ref_pos)
    /\ NoRead
    /\ UNCHANGED build

\* BufRead::consume called by the reader's user, who passes amt <= available
Consume ==
    /\ pc = "idle"
    /\ \E amt \in 0..available :
        /\ Finish(consume(amt))
        /\ lastOp' = "consume"
        /\ lastArg' = <<"None", amt>>
        /\ Follow(absolute_pos, ref_pos + amt)
    /\ pre' = Snapshot
    /\ srcSeeks' = 0
    /\ srcReads' = 0
    /\ srcSeekReq' = NoReq
    /\ srcReadLen' = 0
    /\ NoRead
    /\ UNCHANGED build

\* read(buf): entry, up to the first test of the loop
Read ==
    /\ pc = "idle"
    /\ \E len \in 0..MaxDest :
        /\ n_exp' = len
        /\ dest' = Zeros(len)
        /\ lastArg' = <<"None", len>>
    /\ n_total' = 0
    /\ pc' = "read"
    /\ lastOp' = "read"
    /\ lastRes' = "pending"
    /\ lastVal' = 0
    /\ pre' = Snapshot
    /\ srcSeeks' = 0
    /\ srcReads' = 0
    /\ srcSeekReq' = NoReq
    /\ srcReadLen' = 0
    /\ UNCHANGED <<inner_pos, readerVars, build, clean, faults, ref_pos>>

\* read returns res (Ok(n_total) or the error of a fill)
ReadDone(o, res) ==
    /\ Commit(o, res = "panic")
    /\ pc' = IF res = "panic" THEN "panicked" ELSE "idle"
    /\ lastRes' = res
    /\ lastVal' = IF res = "ok" THEN n_total ELSE 0
    /\ clean' = (clean /\ res = "ok")
    /\ faults' = faults + o.io
    /\ Follow(pre.absolute_pos, RefRead(ref_pos, n_exp))
    /\ UNCHANGED <<n_total, dest>>

\* a loop that goes on after a pass that delivered nothing
Break_Never(n_read) == FALSE

\* `if n_read == 0 { break; }`
Break(n_read) == n_read = 0

\* one pass of `while n_total < n_exp { .. }`
ReadLoop ==
    /\ pc = "read"
    /\ n_total < n_exp
    /\ \E o \in fill_buf :
        LET n_read == Min(o.cap - o.buf_pos, n_exp - n_total)
        IN  /\ srcReads' = srcReads + o.reads
            /\ srcReadLen' = IF o.reads = 1 THEN o.rlen ELSE srcReadLen
            /\ IF o.res # "ok"
                 THEN ReadDone(o, o.res)
               ELSE IF Break(n_read)
                 THEN ReadDone(o, "ok")
               ELSE /\ dest' = [i \in 1..n_exp |->
                                 IF i > n_total /\ i <= n_total + n_read
                                    THEN o.buf[o.buf_pos + (i - n_total)]
                                    ELSE dest[i]]
                    /\ buf' = o.buf
                    /\ cap' = o.cap
                    /\ inner_pos' = o.inner_pos
                    /\ buf_pos' = o.buf_pos + n_read
                    /\ absolute_pos' = o.absolute_pos + n_read
                    /\ n_total' = n_total + n_read
                    /\ UNCHANGED <<pc, lastRes, lastVal, clean, faults, ref_pos>>
    /\ UNCHANGED <<build, n_exp, lastOp, lastArg, pre, srcSeeks, srcSeekReq>>

ReadReturn ==
    /\ pc = "read"
    /\ n_total >= n_exp
    /\ ReadDone(Outcome("ok", n_total, buf, buf_pos, cap, absolute_pos, inner_pos,
                        0, 0, NoReq, 0), "ok")
    /\ UNCHANGED <<build, n_exp, lastOp, lastArg, pre, srcSeeks, srcReads, srcSeekReq,
                   srcReadLen>>

IntoInner ==
    /\ pc = "idle"
    /\ \E o \in into_inner :
        /\ Commit(o, TRUE)
        /\ pc' = "unwrapped"
        /\ lastRes' = o.res
        /\ lastVal' = 0
        /\ clean' = (clean /\ o.res = "ok")
        /\ faults' = faults + o.io
        /\ Follow(absolute_pos, ref_pos)
        /\ srcSeeks' = o.seeks
        /\ srcReads' = o.reads
        /\ srcSeekReq' = o.req
        /\ srcReadLen' = o.rlen
    /\ lastOp' = "into_inner"
    /\ lastArg' = NoReq
    /\ pre' = Snapshot
    /\ NoRead
    /\ UNCHANGED build

Next ==
    \/ Seek
    \/ FillBuf
    \/ Consume
    \/ Read
    \/ ReadLoop
    \/ ReadReturn
    \/ IntoInner

Spec == Init /\ [][Next]_vars

\* the reader used through read and seek alone
NextReadSeek ==
    \/ Seek
    \/ Read
    \/ ReadLoop
    \/ ReadReturn

SpecReadSeek == Init /\ [][NextReadSeek]_vars

\* the reader used through read alone
NextRead ==
    \/ Read
    \/ ReadLoop
    \/ ReadReturn

SpecRead == Init /\ [][NextRead]_vars

\* A call of read, once entered, keeps running: the thread inside the loop
\* takes its next pass, or returns, as long as that step is possible (the
\* Source's read is assumed to return).
SpecLive == Spec /\ WF_vars(ReadLoop) /\ WF_vars(ReadReturn)

TypeOK ==
    /\ pc \in {"idle", "read", "panicked", "unwrapped"}
    /\ build \in {"debug", "release"}
    /\ Len(buf) \in 0..MaxCap
    /\ lastRes \in {"ok", "err", "panic", "pending"}

(***************************************************************************)
(* Properties                                                              *)
(***************************************************************************)
PreAvailable == IF ULt(pre.cap, pre.buf_pos) THEN 0 ELSE pre.cap - pre.buf_pos

\* a call has returned (or panicked) and the next one has not begun
Returned(op) == pc # "read" /\ lastOp = op

\* seek(SeekFrom::Current(n)) has returned
ReturnedCurrent == Returned("seek") /\ lastArg[1] = "Current"

\* the call began after successful calls only, no field having wrapped
PreSound == pre.clean /\ pre.buf_pos >= 0 /\ pre.absolute_pos >= 0

\* C1: after successful reads and seeks on a fixed Source, position() is the
\* position of a plain cursor over the same bytes that made the same calls,
\* for every buffer capacity >= 1 (in a debug build, where no call succeeds
\* with a wrapped position).
C1_PositionMatchesReference ==
    (clean /\ pc = "idle" /\ build = "debug" /\ Len(buf) >= 1) => position = ref_pos

\* C2: after successful reads and seeks, a read that returns k has written
\* into dest[0..k) the Source bytes at offsets p .. p+k-1, p being position()
\* just before the read (p a position of the stream, not a wrapped one).
C2_ReadDeliversBytesAtPosition ==
    (clean /\ pc = "idle" /\ lastOp = "read" /\ pre.absolute_pos >= 0) =>
        /\ lastVal = n_total
        /\ pre.absolute_pos + lastVal <= Max(SrcLen, pre.absolute_pos)
        /\ \A i \in 1..lastVal : dest[i] = SrcByte(pre.absolute_pos + i - 1)

\* C3: seek(Current(n)) with n > available(), also when available() > 0,
\* seeks the Source to absolute_pos + n, returns old position() + n, leaves
\* position() = old position() + n and available() = 0.
C3_ForwardEscapeSeeksToTarget ==
    (ReturnedCurrent /\ PreSound /\ lastRes = "ok" /\ lastArg[2] > PreAvailable) =>
        /\ inner_pos = pre.absolute_pos + lastArg[2]
        /\ lastVal = pre.absolute_pos + lastArg[2]
        /\ position = pre.absolute_pos + lastArg[2]
        /\ available = 0

\* C4: seek(Current(-m)) with m > buffer_pos and m <= position(), also when
\* available() > 0, succeeds (unless the Source itself reports an error),
\* seeks the Source to absolute_pos - m, leaves position() = old position() - m
\* and available() = 0.
C4_BackwardEscapeSeeksToTarget ==
    (ReturnedCurrent /\ PreSound /\ lastRes # "err"
        /\ -lastArg[2] > pre.buf_pos /\ -lastArg[2] <= pre.absolute_pos) =>
        /\ lastRes = "ok"
        /\ srcSeeks = 1
        /\ inner_pos = pre.absolute_pos + lastArg[2]
        /\ position = pre.absolute_pos + lastArg[2]
        /\ available = 0

\* C5: seek(Current(-m)) with 1 <= m <= buffer_pos (m = buffer_pos included),
\* the target being a position of the stream, is served in memory: no Source
\* seek, no Source read, buffer_pos and absolute_pos both decrease by m,
\* filled_len is unchanged.
C5_BackwardInBufferNoIo ==
    (ReturnedCurrent /\ PreSound /\ -lastArg[2] >= 1 /\ -lastArg[2] <= pre.buf_pos
        /\ -lastArg[2] <= pre.absolute_pos) =>
        /\ lastRes = "ok"
        /\ srcSeeks = 0
        /\ srcReads = 0
        /\ buf_pos = pre.buf_pos + lastArg[2]
        /\ absolute_pos = pre.absolute_pos + lastArg[2]
        /\ cap = pre.cap

\* C6: seek(Current(n)) with 1 <= n <= available() is served in memory: no
\* Source seek, no Source read, buffer_pos and absolute_pos both increase by
\* n, filled_len and the buffer's contents are unchanged.
C6_ForwardInBufferNoIo ==
    [][(pc = "idle" /\ lastOp' = "seek" /\ lastArg'[1] = "Current"
            /\ lastArg'[2] >= 1 /\ lastArg'[2] <= available) =>
        /\ lastRes' = "ok"
        /\ srcSeeks' = 0
        /\ srcReads' = 0
        /\ inner_pos' = inner_pos
        /\ buf_pos' = buf_pos + lastArg'[2]
        /\ absolute_pos' = absolute_pos + lastArg'[2]
        /\ lastVal' = absolute_pos + lastArg'[2]
        /\ cap' = cap
        /\ buf' = buf]_vars

\* C6's case: a forward seek inside the buffer, up to its very end
C6_Witness ==
    /\ ReturnedCurrent /\ lastRes = "ok"
    /\ lastArg[2] >= 1
    /\ lastArg[2] = PreAvailable
    /\ srcSeeks = 0
    /\ pre.buf_pos >= 1

\* C7: seek(Current(0)) succeeds in every reachable state, returns the
\* unchanged position(), calls neither read nor seek on the Source and
\* leaves buffer_pos, filled_len and absolute_pos unchanged (shown where the
\* Source has raised no I/O error).
C7_SeekCurrentZeroIsNoOp ==
    (ReturnedCurrent /\ lastArg[2] = 0 /\ PreSound /\ faults = 0) =>
        /\ lastRes = "ok"
        /\ lastVal = pre.absolute_pos
        /\ srcSeeks = 0
        /\ srcReads = 0
        /\ buf_pos = pre.buf_pos
        /\ cap = pre.cap
        /\ absolute_pos = pre.absolute_pos

\* C8: seek(Start(x)) and seek(End(x)) always flush, whatever is buffered:
\* exactly one Source seek with the same target, available() = 0 afterwards,
\* and the value returned and position() are the position the Source
\* reported, which is where the Source then is.
C8_AbsoluteSeekFlushes ==
    (Returned("seek") /\ lastArg[1] \in {"Start", "End"}) =>
        /\ srcSeeks = 1
        /\ srcReads = 0
        /\ srcSeekReq = lastArg
        /\ available = 0
        /\ lastRes = "ok" =>
            /\ lastVal = inner_pos
            /\ position = inner_pos
            /\ inner_pos = SeekBase(lastArg[1], 0) + lastArg[2]

\* C8's case: an absolute seek to a target inside the buffered window
C8_Witness ==
    /\ Returned("seek") /\ lastArg[1] = "Start" /\ lastRes = "ok"
    /\ pre.clean
    /\ PreAvailable >= 2
    /\ lastArg[2] > pre.absolute_pos
    /\ lastArg[2] < pre.absolute_pos + PreAvailable

\* C9: when the Source's seek fails during a seek call, the call returns the
\* error and buffer_pos, filled_len and absolute_pos are what they were
\* before the call.
C9_FailedSeekLeavesState ==
    (Returned("seek") /\ lastRes = "err" /\ PreSound) =>
        /\ buf_pos = pre.buf_pos
        /\ cap = pre.cap
        /\ absolute_pos = pre.absolute_pos

\* C10: when a Source read fails during read(dest), at whichever fill, the
\* call returns the error and buffer_pos, filled_len and absolute_pos are
\* what they were before the call.
C10_FailedReadLeavesState ==
    (Returned("read") /\ lastRes = "err" /\ PreSound) =>
        /\ buf_pos = pre.buf_pos
        /\ cap = pre.cap
        /\ absolute_pos = pre.absolute_pos

\* C11: seek(Current(-m)) whose target lies before the start of the stream
\* (m > position()), the fresh reader included, is forwarded to the Source as
\* a seek and returns what the Source returned: no abort on underflow, and
\* the reader stays usable (no field wraps).
C11_BeforeStartForwarded ==
    (ReturnedCurrent /\ PreSound /\ -lastArg[2] > pre.absolute_pos) =>
        /\ lastRes # "panic"
        /\ srcSeeks = 1
        /\ srcSeekReq = lastArg
        /\ buf_pos >= 0
        /\ absolute_pos >= 0

\* C12: into_inner, after successful calls, seeks the Source to
\* Start(position()) before returning it, so the returned Source is at
\* position(), and what it reads next is what the reader would have
\* returned next: the bytes still buffered are the Source's bytes from
\* offset position() on.
C12_IntoInnerSynchronizes ==
    [][(pc = "idle" /\ clean /\ lastOp' = "into_inner" /\ lastRes' = "ok") =>
        /\ srcSeeks' = 1
        /\ srcSeekReq' = <<"Start", position>>
        /\ inner_pos' = position
        /\ \A i \in 1..available :
                buf[buf_pos + i] = SrcByte(position + i - 1)]_vars

\* C13: with reads only (no seek), all successful, and a buffer capacity
\* >= 1, the bytes returned so far are the Source's bytes from offset 0 on,
\* as many as direct reads of the Source return: each read returns the bytes
\* that follow those of the reads before it, and position() (the count
\* returned so far) is where a plain cursor making the same reads stands.
C13_ReadsOnlyRoundTrip ==
    (clean /\ pc = "idle" /\ lastOp = "read" /\ Len(buf) >= 1) =>
        /\ position = ref_pos
        /\ lastVal = n_total
        /\ position = pre.absolute_pos + lastVal
        /\ ref_pos = RefRead(pre.absolute_pos, n_exp)
        /\ \A i \in 1..lastVal : dest[i] = SrcByte(pre.absolute_pos + i - 1)

\* C13's case: a read larger than the buffer, served by several fills, after
\* an earlier read, ending at the end of the Source
C13_Witness ==
    /\ clean /\ pc = "idle" /\ lastOp = "read"
    /\ Len(buf) = 1
    /\ n_exp = 2
    /\ srcReads >= 2
    /\ pre.absolute_pos >= 1
    /\ lastVal = 1

\* C14: a successful read(dest) on the Source of SrcLen bytes, capacity >= 1,
\* after successful reads and seeks (debug build: no wrapped position),
\* returns exactly min(len(dest), max(0, SrcLen - position())) whatever
\* partial reads the Source made; position() advances by the count returned
\* and dest is untouched from that index on.
C14_ReadReturnsExactCount ==
    (clean /\ pc = "idle" /\ lastOp = "read" /\ build = "debug" /\ Len(buf) >= 1) =>
        /\ lastVal = Min(n_exp, Max(0, SrcLen - pre.absolute_pos))
        /\ position = pre.absolute_pos + lastVal
        /\ \A i \in (lastVal + 1)..n_exp : dest[i] = 0

\* C15: capacity() returns the buffer capacity chosen at construction, in
\* every state of a live reader: right after construction and after any
\* calls.
C15_CapacityIsConstructed ==
    pc \in {"idle", "read"} => capacity = Len(buf)

\* C16: right after a successful flushing seek (Start, End or a Current that
\* left the buffer), a successful seek(Current(-m)), m >= 1, is not served in
\* memory: it goes to the Source, and available() is still 0 after it
\* (debug build, where such a seek cannot succeed on wrapped arithmetic).
C16_FlushedBufferUnreachable ==
    [][(/\ pc = "idle" /\ clean /\ build = "debug"
        /\ lastOp = "seek" /\ srcSeeks = 1 /\ available = 0
        /\ lastOp' = "seek" /\ lastArg'[1] = "Current" /\ lastArg'[2] <= -1
        /\ lastRes' = "ok") =>
            /\ srcSeeks' = 1
            /\ available' = 0]_vars

\* C17: in every state reached by successful reads and seeks in which
\* position() is a position of the stream, the Source's physical position is
\* position() + available().
C17_SourceLeadsByAvailable ==
    (clean /\ pc = "idle" /\ absolute_pos >= 0 /\ pre.absolute_pos >= 0) =>
        inner_pos = position + available

\* C18: in every state of a live reader reached through construction, read,
\* seek and fill, buffer_pos <= filled_len <= the constructed capacity (as
\* unsigned values), so available() is filled_len - buffer_pos and the slice
\* buf[buf_pos..cap] is in bounds.
C18_BufferIndicesInBounds ==
    pc \in {"idle", "read"} =>
        /\ ~ULt(cap, buf_pos)
        /\ ~ULt(Len(buf), cap)
        /\ available = cap - buf_pos

\* a step in which the Source's read is called: by fill_buf, called directly
\* or from read's loop
SourceReadStep ==
    \/ pc = "idle" /\ lastOp' = "fill_buf" /\ srcReads' >= 1
    \/ pc = "read" /\ srcReads' # srcReads

\* read(dest) has returned, len(dest) being at most what was available
ReadWithinBuffer == Returned("read") /\ n_exp <= PreAvailable

\* C19: the Source's read is called only when the unconsumed region is
\* empty (buf_pos = cap), once per fill, with the whole buffer as its
\* destination; so a read(dest) with len(dest) <= available() succeeds
\* without any Source read and leaves filled_len unchanged.
C19_SourceReadOnlyWhenEmpty ==
    [][/\ SourceReadStep =>
            /\ buf_pos = cap
            /\ srcReadLen' = Len(buf)
            /\ srcReads' = (IF pc = "read" THEN srcReads ELSE 0) + 1
       /\ ReadWithinBuffer' =>
            /\ lastRes' = "ok"
            /\ lastVal' = n_exp'
            /\ srcReads' = 0
            /\ cap' = pre'.cap]_vars

\* C19's case: a read served from the buffer alone, taking the last bytes
\* of a buffer already consumed in part
C19_Witness ==
    /\ ReadWithinBuffer /\ lastRes = "ok"
    /\ n_exp >= 1
    /\ n_exp = PreAvailable
    /\ srcReads = 0
    /\ pre.buf_pos >= 1
    /\ pre.clean

\* C20: every read(dest) terminates, whatever len(dest) and the capacity
\* (0 included): a pass of the loop that does not end the call delivers at
\* least one byte, the call issues at most len(dest) Source reads, and a
\* call that has begun always ends (by a return or a panic).
C20_ReadTerminates ==
    /\ [][(pc = "read" /\ pc' = "read") => n_total' > n_total]_vars
    /\ [](lastOp = "read" => (n_total <= n_exp /\ srcReads <= n_exp))
    /\ (pc = "read") ~> (pc # "read")

\* C20's case: a read has ended through the break, after as many Source
\* reads as dest is long, the last of them delivering nothing
C20_Witness ==
    /\ Returned("read")
    /\ lastRes = "ok"
    /\ n_exp >= 2
    /\ srcReads = n_exp
    /\ lastVal < n_exp

\* a reader constructed with capacity 0, between calls or inside read, after
\* successful calls only and with no field wrapped
CapacityZero ==
    /\ pc \in {"idle", "read"}
    /\ Len(buf) = 0
    /\ clean
    /\ buf_pos >= 0
    /\ absolute_pos >= 0

\* C21: a reader of capacity 0 works: a read(dest) with non-empty dest makes
\* one Source read of size 0, returns 0 (unless the Source fails) and leaves
\* position() where it was, and a seek whose target is not before the start
\* of the stream still seeks the Source and sets position() to where the
\* Source then is.
C21_CapacityZeroDegenerate ==
    [][CapacityZero =>
        /\ (pc = "read" /\ n_exp >= 1) =>
            /\ pc' = "idle"
            /\ srcReads' = 1
            /\ srcReadLen' = 0
            /\ faults' = faults => (lastRes' = "ok" /\ lastVal' = 0)
            /\ position' = pre.absolute_pos
        /\ (pc = "idle" /\ lastOp' = "seek"
                /\ SeekBase(lastArg'[1], absolute_pos) + lastArg'[2] >= 0) =>
            /\ lastRes' # "panic"
            /\ srcSeeks' = 1
            /\ lastRes' = "ok" =>
                /\ inner_pos' = SeekBase(lastArg'[1], absolute_pos) + lastArg'[2]
                /\ position' = inner_pos'
                /\ lastVal' = position']_vars

====
